---- MODULE Spec2Model ----
(***************************************************************************)
(* The e-commerce insights dashboard (src/app.py): a Streamlit script that *)
(* is run top to bottom once at start-up and once more after every widget  *)
(* change.  The state is the data frame df, the two sidebar widgets and    *)
(* the names the script binds in a pass (view, funnel, the unique-user     *)
(* counts, the ratios, the monthly series).                                *)
(*                                                                         *)
(* Numbers.  A price is an integer number of cents.  A float produced by a *)
(* division is the exact rational [num, den] with den > 0; NaN (pandas'    *)
(* mean of nothing) is [num |-> 0, den |-> 0].  A Timestamp is the tuple   *)
(* <<year, month, day, time>>, a datetime.date the tuple <<year, month,    *)
(* day>>, a str a sequence of character codes.                             *)
(***************************************************************************)
EXTENDS Integers, Sequences, FiniteSets, TLC

VARIABLES
    cache,                 \* line 13: what st.cache_data holds for generate_data()
    df,                    \* line 28: the generated data frame (a sequence of rows)
    events,                \* line 35: the multiselect's value (used only through isin)
    date_range,            \* line 36: the date_input's value, a tuple of 0..2 dates
    error_shown,           \* line 38: st.error was called in this pass
    status,                \* "loaded" before the first pass, then how the last pass ended:
                           \* "done", or the exception that ended it
    view,                  \* line 48
    funnel,                \* line 53
    fig1,                  \* line 62
    unique_views,          \* line 56
    unique_adds,           \* line 57
    unique_purchases,      \* line 58
    conv_view_to_add,      \* line 59
    conv_add_to_purchase,  \* line 60
    cart_abandonment_rate, \* line 79
    avg_order_value,       \* line 80
    monthly                \* lines 95-98

vars == <<cache, df, events, date_range, error_shown, status, view, funnel, fig1,
          unique_views, unique_adds, unique_purchases, conv_view_to_add,
          conv_add_to_purchase, cart_abandonment_rate, avg_order_value, monthly>>

----------------------------------------------------------------------------
(* Bounds of the model *)

\* n of generate_data (30000 in the program): the number of rows generated.
N == 3
\* user_id is drawn from 1..1999 in the program, from two users here.
Users == { 1, 2 }
\* The user_id columns drawn.  The script only tests user ids for equality,
\* so the first row's user is fixed: the columns left out are these with the
\* two users renamed.
UserColumns == { u \in [1..N -> Users] : u[1] = 1 }
\* The days the rows and the date picker draw from: the last day of a month
\* and the first day of the next.
Dates == { <<2024, 1, 31>>, <<2024, 2, 1>> }
\* The price column, in cents.  The program draws it from uniform(5, 300)
\* independently of every other column; here it alternates between the two
\* ends of that range, so that rows of one event, user or month differ in price.
price_column == [ i \in 1..N |-> IF i % 2 = 1 THEN 500 ELSE 30000 ]

----------------------------------------------------------------------------
(* Values *)

EventTypes == { "view", "add_to_cart", "purchase" }

\* Python's str order on the three event names.
StrRank(e) == CASE e = "add_to_cart" -> 1 [] e = "purchase" -> 2 [] e = "view" -> 3

Zero == [num |-> 0, den |-> 1]
NaN == [num |-> 0, den |-> 0]

Range(s) == { s[i] : i \in DOMAIN s }

\* Lexicographic order on sequences of integers: Python's order on tuples of
\* numbers and on strs, pandas' order on Timestamps.
RECURSIVE LexLess(_, _)
LexLess(a, b) ==
    IF a = << >> THEN b # << >>
    ELSE IF b = << >> THEN FALSE
    ELSE IF Head(a) # Head(b) THEN Head(a) < Head(b)
    ELSE LexLess(Tail(a), Tail(b))

LexLeq(a, b) == a = b \/ LexLess(a, b)

RECURSIVE SeqSum(_)
SeqSum(s) == IF s = << >> THEN 0 ELSE Head(s) + SeqSum(Tail(s))

\* A finite set of integer sequences (strs, Timestamps) in ascending order.
RECURSIVE SortedLex(_)
SortedLex(S) ==
    IF S = {} THEN << >>
    ELSE LET m == CHOOSE x \in S : \A y \in S : LexLeq(x, y)
         IN <<m>> \o SortedLex(S \ {m})

\* A finite set of event names in Python's str order.
RECURSIVE SortedEvents(_)
SortedEvents(S) ==
    IF S = {} THEN << >>
    ELSE LET m == CHOOSE x \in S : \A y \in S : StrRank(x) <= StrRank(y)
         IN <<m>> \o SortedEvents(S \ {m})

----------------------------------------------------------------------------
(* Dates and months *)

\* pd.to_datetime of a datetime.date: midnight of that day.
to_datetime(d) == <<d[1], d[2], d[3], 0>>

\* st.date_input turns the Timestamps it is given into dates.
to_date(ts) == <<ts[1], ts[2], ts[3]>>

Digit(k) == 48 + k

\* Series.dt.to_period('M').astype(str): "YYYY-MM".
month_str(ts) ==
    LET y == ts[1]
        m == ts[2]
    IN << Digit(y \div 1000), Digit((y \div 100) % 10), Digit((y \div 10) % 10),
          Digit(y % 10), 45, Digit(m \div 10), Digit(m % 10) >>

\* pd.to_datetime of a "YYYY-MM" str: midnight of the first day of the month.
month_to_datetime(s) ==
    LET v(i) == s[i] - 48
    IN << 1000 * v(1) + 100 * v(2) + 10 * v(3) + v(4), 10 * v(6) + v(7), 1, 0 >>

----------------------------------------------------------------------------
(* generate_data *)

\* The frame built from the drawn columns; event_id is arange(n), month is
\* derived from date.
generate_data(users, dates, evs, prices) ==
    [ i \in 1..N |->
        [ event_id |-> i - 1,
          user_id  |-> users[i],
          date     |-> to_datetime(dates[i]),
          event    |-> evs[i],
          price    |-> prices[i],
          month    |-> month_str(to_datetime(dates[i])) ] ]

----------------------------------------------------------------------------
(* The filter *)

\* mask with the end of the range excluded.
mask_strict_end(frame, ev, dr) ==
    [ i \in DOMAIN frame |->
        /\ frame[i].event \in ev
        /\ LexLeq(to_datetime(dr[1]), frame[i].date)
        /\ LexLess(frame[i].date, to_datetime(dr[2])) ]

\* mask without the test of the event.
mask_without_isin(frame, ev, dr) ==
    [ i \in DOMAIN frame |->
        /\ LexLeq(to_datetime(dr[1]), frame[i].date)
        /\ LexLeq(frame[i].date, to_datetime(dr[2])) ]

\* The boolean Series of lines 43-47, one entry per row of the frame.
mask(frame, ev, dr) ==
    [ i \in DOMAIN frame |->
        /\ frame[i].event \in ev
        /\ LexLeq(to_datetime(dr[1]), frame[i].date)
        /\ LexLeq(frame[i].date, to_datetime(dr[2])) ]

\* frame[m]: the rows whose entry of m is True, in the frame's order.
RECURSIVE boolean_index(_, _, _)
boolean_index(frame, m, i) ==
    IF i > Len(frame) THEN << >>
    ELSE IF m[i] THEN <<frame[i]>> \o boolean_index(frame, m, i + 1)
    ELSE boolean_index(frame, m, i + 1)

\* view[view['event'] == e]
of_event(v, e) == boolean_index(v, [ i \in DOMAIN v |-> v[i].event = e ], 1)

column(v, name) == [ i \in DOMAIN v |-> v[i][name] ]

----------------------------------------------------------------------------
(* The aggregates *)

\* nunique counting the values, distinct or not (Series.count).
nunique_counts_rows(s) == Len(s)

\* Series.nunique: the number of distinct values.
nunique(s) == Cardinality(Range(s))

\* view.groupby('event', as_index=False).agg(count=('event','count')): one
\* row per event name that occurs in the view, in ascending order of the name.
groupby_event_count(v) ==
    LET keys == SortedEvents(Range(column(v, "event")))
    IN [ k \in DOMAIN keys |->
           [ event |-> keys[k], count |-> Len(of_event(v, keys[k])) ] ]

funnel_order == << "view", "add_to_cart", "purchase" >>

\* px.bar(funnel, x='event', y='count', category_orders=..., text='count'):
\* one bar per row of funnel; the axis is told the order of the categories.
bar(fn) ==
    [ x |-> column(fn, "event"), y |-> column(fn, "count"),
      text |-> column(fn, "count"), categoryarray |-> funnel_order ]

\* Python's a / b on ints.  With b = 0 Python raises ZeroDivisionError: the
\* value with den = 0 stands for that, and ends the pass (see script).
truediv(a, b) == [num |-> a, den |-> b]

\* The ratio without its guard.
ratio_unguarded(a, b) == truediv(a, b)

\* a / b if b else 0
ratio_or_zero(a, b) == IF b # 0 THEN truediv(a, b) ELSE Zero

\* The rate itself where its complement is meant.
one_minus_dropped(x) == x

\* 1 - x
one_minus(x) == [num |-> x.den - x.num, den |-> x.den]

\* Series.mean: sum / count, NaN for an empty Series.
mean(s) == IF Len(s) = 0 THEN NaN ELSE [num |-> SeqSum(s), den |-> Len(s)]

\* The mean taken over every row of the view.
mean_price_all_rows(v, purchases) ==
    IF purchases # 0 THEN mean(column(v, "price")) ELSE Zero

\* view[...]['price'].mean() if purchases else 0
mean_price_or_zero(v, purchases) ==
    IF purchases # 0 THEN mean(column(of_event(v, "purchase"), "price")) ELSE Zero

\* groupby('month', as_index=False).agg(purchases=('event','count'),
\* revenue=('price','sum')) on the purchase rows: one row per month str that
\* occurs, in ascending order of the str.
groupby_month(p) ==
    LET keys == SortedLex(Range(column(p, "month")))
        grp(k) == boolean_index(p, [ i \in DOMAIN p |-> p[i].month = k ], 1)
    IN [ j \in DOMAIN keys |->
           [ month     |-> keys[j],
             purchases |-> Len(grp(keys[j])),
             revenue   |-> SeqSum(column(grp(keys[j]), "price")) ] ]

\* monthly['month'] = pd.to_datetime(monthly['month'])
months_to_datetime(m) ==
    [ j \in DOMAIN m |-> [ m[j] EXCEPT !.month = month_to_datetime(m[j].month) ] ]

\* DataFrame.sort_values('month'), ascending.
RECURSIVE insert_row(_, _)
insert_row(sorted, r) ==
    IF sorted = << >> THEN <<r>>
    ELSE IF LexLess(r.month, Head(sorted).month) THEN <<r>> \o sorted
    ELSE <<Head(sorted)>> \o insert_row(Tail(sorted), r)

RECURSIVE sort_values_month(_)
sort_values_month(m) ==
    IF m = << >> THEN << >>
    ELSE insert_row(sort_values_month(SubSeq(m, 1, Len(m) - 1)), m[Len(m)])

\* The trend taken over every row of the view.
monthly_trend_all_events(v) == sort_values_month(months_to_datetime(groupby_month(v)))

monthly_trend(v) == sort_values_month(months_to_datetime(groupby_month(of_event(v, "purchase"))))

----------------------------------------------------------------------------
(* One pass of the script *)

\* What a name holds while no statement of the pass has bound it.  It is read
\* by nothing: every statement after an exception is skipped.
Unbound ==
    [ view |-> << >>, funnel |-> << >>, fig1 |-> bar(<< >>),
      unique_views |-> 0, unique_adds |-> 0, unique_purchases |-> 0,
      conv_view_to_add |-> Zero, conv_add_to_purchase |-> Zero,
      cart_abandonment_rate |-> Zero, avg_order_value |-> Zero,
      monthly |-> << >> ]

\* t[i] of a Python tuple raises IndexError unless i < len(t).
IndexError(t, i) == ~ (i < Len(t))

\* Lines 37-38.
date_error(dr) == Len(dr) # 2

\* The names the pass leaves bound, and the exception that ended it.
Bind(e, v, fn, f1, uv, ua, up, c1, c2, car, aov, mo) ==
    /\ status' = e
    /\ view' = v
    /\ funnel' = fn
    /\ fig1' = f1
    /\ unique_views' = uv
    /\ unique_adds' = ua
    /\ unique_purchases' = up
    /\ conv_view_to_add' = c1
    /\ conv_add_to_purchase' = c2
    /\ cart_abandonment_rate' = car
    /\ avg_order_value' = aov
    /\ monthly' = mo

\* Lines 43-98 on the frame, with the widgets holding ev and dr; the
\* statements run in the order of the script and an exception skips the rest.
script(frame, ev, dr) ==
    LET U == Unbound
    IN
    IF IndexError(dr, 0) \/ IndexError(dr, 1)
    THEN Bind("IndexError", U.view, U.funnel, U.fig1, 0, 0, 0, Zero, Zero, Zero, Zero, << >>)
    ELSE
    \E v \in { boolean_index(frame, mask(frame, ev, dr), 1) } :
    \E fn \in { groupby_event_count(v) } :
    \E uv \in { nunique(column(of_event(v, "view"), "user_id")) } :
    \E ua \in { nunique(column(of_event(v, "add_to_cart"), "user_id")) } :
    \E up \in { nunique(column(of_event(v, "purchase"), "user_id")) } :
    \E c1 \in { ratio_or_zero(ua, uv) } :
    \E c2 \in { ratio_or_zero(up, ua) } :
        IF c1.den = 0
        THEN Bind("ZeroDivisionError", v, fn, U.fig1, uv, ua, up, Zero, Zero, Zero, Zero, << >>)
        ELSE IF c2.den = 0
        THEN Bind("ZeroDivisionError", v, fn, U.fig1, uv, ua, up, c1, Zero, Zero, Zero, << >>)
        ELSE Bind("done", v, fn, bar(fn), uv, ua, up, c1, c2, one_minus(c2),
                  mean_price_or_zero(v, up), monthly_trend(v))

\* A pass of the whole script with the widgets holding ev and dr.
Rerun(ev, dr) ==
    /\ events' = ev
    /\ date_range' = dr
    \* line 28: generate_data() returns what the cache holds; when the entry
    \* has expired the same seed generates the same frame again
    /\ cache' = cache
    /\ df' = cache
    /\ error_shown' = date_error(dr)
    /\ script(df, ev, dr)

----------------------------------------------------------------------------
(* The widgets *)

\* df['event'].unique(): the options of the multiselect, and its default.
event_options(frame) == Range(column(frame, "event"))

\* [df['date'].min(), df['date'].max()]: the default of the date input.
default_date_range(frame) ==
    LET ds == SortedLex(Range(column(frame, "date")))
    IN << to_date(ds[1]), to_date(ds[Len(ds)]) >>

\* Line 28, before the script reaches the sidebar: the frame is generated,
\* no widget exists yet and no name of the script is bound.
Init ==
    /\ \E users \in UserColumns, dates \in [1..N -> Dates],
          evs \in [1..N -> EventTypes] :
            /\ cache = generate_data(users, dates, evs, price_column)
            /\ df = cache
    /\ events = {}
    /\ date_range = << >>
    /\ error_shown = FALSE
    /\ status = "loaded"
    /\ view = Unbound.view
    /\ funnel = Unbound.funnel
    /\ fig1 = Unbound.fig1
    /\ unique_views = 0
    /\ unique_adds = 0
    /\ unique_purchases = 0
    /\ conv_view_to_add = Zero
    /\ conv_add_to_purchase = Zero
    /\ cart_abandonment_rate = Zero
    /\ avg_order_value = Zero
    /\ monthly = << >>

\* The first pass: the widgets are created and return their defaults.
FirstPass ==
    /\ status = "loaded"
    /\ Rerun(event_options(df), default_date_range(df))

\* The selection changes and no pass follows: what is shown stays as it was.
ToggleEvent_stale(e) ==
    /\ status # "loaded"
    /\ e \in event_options(df)
    /\ events' = (IF e \in events THEN events \ {e} ELSE events \cup {e})
    /\ UNCHANGED <<cache, df, date_range, error_shown, status, view, funnel, fig1,
                   unique_views, unique_adds, unique_purchases, conv_view_to_add,
                   conv_add_to_purchase, cart_abandonment_rate, avg_order_value,
                   monthly>>

\* The user adds an option to the multiselect or removes one: a pass follows.
ToggleEvent(e) ==
    /\ status # "loaded"
    /\ e \in event_options(df)
    /\ Rerun(IF e \in events THEN events \ {e} ELSE events \cup {e}, date_range)

\* The user clears the multiselect.
ClearEvents ==
    /\ status # "loaded"
    /\ events # {}
    /\ Rerun({}, date_range)

\* The user picks the first date of a range: the date input returns a
\* 1-tuple until the second date is picked.
PickStart(a) ==
    /\ status # "loaded"
    /\ date_range # <<a>>
    /\ Rerun(events, <<a>>)

\* The user gives the second date.  Nothing in the script orders the two.
PickEnd(b) ==
    /\ status # "loaded"
    /\ Len(date_range) = 1
    /\ Rerun(events, <<date_range[1], b>>)

\* The user empties the date input.
ClearDates ==
    /\ status # "loaded"
    /\ date_range # << >>
    /\ Rerun(events, << >>)

Next ==
    \/ FirstPass
    \/ \E e \in EventTypes : ToggleEvent(e)
    \/ ClearEvents
    \/ \E a \in Dates : PickStart(a)
    \/ \E b \in Dates : PickEnd(b)
    \/ ClearDates

Spec == Init /\ [][Next]_vars

----------------------------------------------------------------------------
(* The specification's own terms, stated on the state a pass leaves: sets  *)
(* of row numbers and day numbers, none of the operators of the script.    *)

Done == status = "done"

\* A calendar day as a number that grows with the calendar.
DayNumber(y, m, d) == (y * 12 + m) * 31 + d
DayOfRow(r) == DayNumber(r.date[1], r.date[2], r.date[3])
DayOfDate(d) == DayNumber(d[1], d[2], d[3])

\* r.event in selected_events and date_start <= r.date <= date_end
Matches(r) ==
    /\ r.event \in events
    /\ DayOfDate(date_range[1]) <= DayOfRow(r)
    /\ DayOfRow(r) <= DayOfDate(date_range[2])

MatchingRows == { i \in DOMAIN df : Matches(df[i]) }

\* The k-th smallest member of a set of row numbers.
Kth(S, k) == CHOOSE i \in S : Cardinality({ j \in S : j < i }) = k - 1

IsFilteredView ==
    /\ Len(view) = Cardinality(MatchingRows)
    /\ \A k \in 1..Len(view) : view[k] = df[Kth(MatchingRows, k)]

RowsOf(e) == { i \in DOMAIN view : view[i].event = e }
Count(e) == Cardinality(RowsOf(e))
Unique(e) == Cardinality({ view[i].user_id : i \in RowsOf(e) })

RECURSIVE PriceSum(_)
PriceSum(I) ==
    IF I = {} THEN 0
    ELSE LET i == CHOOSE j \in I : TRUE IN view[i].price + PriceSum(I \ {i})

\* Rationals: x is a number, and x and y are the same number.
IsNumber(x) == x.den > 0
RatEq(x, y) == IsNumber(x) /\ IsNumber(y) /\ x.num * y.den = y.num * x.den
IsZero(x) == IsNumber(x) /\ x.num = 0
IsOne(x) == IsNumber(x) /\ x.num = x.den

\* The calendar month of a row, from its date.
MonthOfRow(r) == r.date[1] * 12 + r.date[2]
MonthOfEntry(e) == e.month[1] * 12 + e.month[2]
PurchaseMonths == { MonthOfRow(view[i]) : i \in RowsOf("purchase") }
PurchasesIn(mo) == { i \in RowsOf("purchase") : MonthOfRow(view[i]) = mo }

StartAfterEnd == Len(date_range) = 2 /\ DayOfDate(date_range[1]) > DayOfDate(date_range[2])

----------------------------------------------------------------------------
(* The claims *)

\* C1: after a pass, the filtered view is exactly the rows of the dataset
\* whose event is selected and whose date lies in [date_start, date_end],
\* both ends included, in the order of the dataset: none dropped, none added,
\* none repeated or moved.
C1_FilteredViewExact == Done => IsFilteredView

\* A pass that kept two rows and dropped a row of a selected event for its
\* date, with a kept row on the last day of the range.
C1_Witness ==
    /\ Done
    /\ Len(view) = 2
    /\ \E i \in DOMAIN df : df[i].event \in events /\ ~ Matches(df[i])
    /\ \E k \in DOMAIN view : DayOfRow(view[k]) = DayOfDate(date_range[2])

\* C2 as amended: with nothing selected, the view, the funnel and the monthly
\* series are empty, the three unique-user counts, both conversion rates and
\* the average order value are 0, and the cart abandonment rate is 1.
C2_EmptySelection ==
    (Done /\ events = {}) =>
        /\ view = << >>
        /\ funnel = << >>
        /\ unique_views = 0 /\ unique_adds = 0 /\ unique_purchases = 0
        /\ IsZero(conv_view_to_add)
        /\ IsZero(conv_add_to_purchase)
        /\ IsZero(avg_order_value)
        /\ monthly = << >>
        /\ IsOne(cart_abandonment_rate)

\* A pass with nothing selected over a range that holds every row.
C2_Witness ==
    /\ Done
    /\ events = {}
    /\ \A i \in DOMAIN df :
        /\ DayOfDate(date_range[1]) <= DayOfRow(df[i])
        /\ DayOfRow(df[i]) <= DayOfDate(date_range[2])

\* C2 as stated: with nothing selected the view is empty and every aggregate
\* is 0 or empty, the cart abandonment rate included.
C2_AsStated ==
    (Done /\ events = {}) =>
        /\ view = << >>
        /\ \A k \in DOMAIN funnel : funnel[k].count = 0
        /\ unique_views = 0 /\ unique_adds = 0 /\ unique_purchases = 0
        /\ IsZero(conv_view_to_add)
        /\ IsZero(conv_add_to_purchase)
        /\ IsZero(cart_abandonment_rate)
        /\ IsZero(avg_order_value)
        /\ monthly = << >>

\* C3: after a pass the funnel chart holds a bar for each of view,
\* add_to_cart and purchase, on an axis in that order, whose height is the
\* number of rows of the view with that event: 0, not no bar, for a type
\* without rows.
C3_FunnelHasAllTypes ==
    Done =>
        /\ fig1.categoryarray = << "view", "add_to_cart", "purchase" >>
        /\ \A e \in EventTypes :
            \E j \in DOMAIN fig1.x : fig1.x[j] = e /\ fig1.y[j] = Count(e)

\* C4 as amended: the view-to-add rate is unique(add_to_cart) / unique(view),
\* a number from 0 to unique(add_to_cart), when unique(view) > 0, and is 0
\* when unique(view) = 0; no pass ends in a division by zero.
C4_ConversionViewToAdd ==
    /\ status # "ZeroDivisionError"
    /\ Done =>
        IF Unique("view") > 0
        THEN /\ RatEq(conv_view_to_add, [num |-> Unique("add_to_cart"), den |-> Unique("view")])
             /\ conv_view_to_add.num >= 0
             /\ conv_view_to_add.num <= Unique("add_to_cart") * conv_view_to_add.den
        ELSE IsZero(conv_view_to_add)

\* A pass whose view holds one viewer and two users who added: a rate of 2.
C4_Witness ==
    /\ Done
    /\ unique_views = 1
    /\ unique_adds = 2
    /\ conv_view_to_add.num = 2 * conv_view_to_add.den

\* C4 as stated: the rate lies in [0, 1] when unique(view) > 0 and is 0 when
\* unique(view) = 0.
C4_AsStated ==
    Done =>
        IF Unique("view") > 0
        THEN /\ IsNumber(conv_view_to_add)
             /\ 0 <= conv_view_to_add.num
             /\ conv_view_to_add.num <= conv_view_to_add.den
        ELSE IsZero(conv_view_to_add)

\* C5: a pass with date_start > date_end ends without an exception, its view
\* is empty, and every aggregate computed on it is a number: the counts and
\* the conversion rates are 0, the average order value is 0, the series empty.
C5_InvertedRange ==
    (status # "loaded" /\ StartAfterEnd) =>
        /\ Done
        /\ view = << >>
        /\ funnel = << >>
        /\ unique_views = 0 /\ unique_adds = 0 /\ unique_purchases = 0
        /\ IsZero(conv_view_to_add)
        /\ IsZero(conv_add_to_purchase)
        /\ IsNumber(cart_abandonment_rate)
        /\ IsZero(avg_order_value)
        /\ monthly = << >>

\* A pass over an inverted range with every event of the dataset selected,
\* purchases among them.
C5_Witness ==
    /\ Done
    /\ StartAfterEnd
    /\ events = { df[i].event : i \in DOMAIN df }
    /\ "purchase" \in events

\* C6: the monthly series has one entry per month with a purchase row in the
\* view and no other; an entry carries the number of purchase rows of its
\* month and the sum of their prices; the months ascend strictly.
C6_MonthlyTrend ==
    Done =>
        /\ { MonthOfEntry(monthly[j]) : j \in DOMAIN monthly } = PurchaseMonths
        /\ \A j \in DOMAIN monthly :
            /\ monthly[j].month[3] = 1 /\ monthly[j].month[4] = 0
            /\ monthly[j].purchases = Cardinality(PurchasesIn(MonthOfEntry(monthly[j])))
            /\ monthly[j].revenue = PriceSum(PurchasesIn(MonthOfEntry(monthly[j])))
        /\ \A j \in 1..(Len(monthly) - 1) :
            MonthOfEntry(monthly[j]) < MonthOfEntry(monthly[j + 1])

\* A pass whose view holds a purchase of the later month before two of the
\* earlier month, of different prices.
C6_Witness ==
    /\ Done
    /\ Len(monthly) = 2
    /\ monthly[1].purchases = 2
    /\ monthly[1].revenue = 30500
    /\ MonthOfRow(view[1]) = MonthOfEntry(monthly[2])

\* C7: the average order value is the sum of the prices of the purchase rows
\* of the view over their number when there is one, and 0 when there is none;
\* it is never the result of a division by zero, and no price of another row
\* enters it.
C7_AverageOrderValue ==
    Done =>
        IF Count("purchase") > 0
        THEN RatEq(avg_order_value,
                   [num |-> PriceSum(RowsOf("purchase")), den |-> Count("purchase")])
        ELSE IsZero(avg_order_value)

\* A pass whose view holds two purchases of different prices and a row that
\* is no purchase.
C7_Witness ==
    /\ Done
    /\ Count("purchase") = 2
    /\ Len(view) = 3
    /\ avg_order_value.num = 30500
    /\ avg_order_value.den = 2

\* C8: the cart abandonment rate is 1 - c, where c is unique(purchase) /
\* unique(add_to_cart) when unique(add_to_cart) > 0 and 0 otherwise.
C8_CartAbandonment ==
    Done =>
        IF Unique("add_to_cart") > 0
        THEN RatEq(cart_abandonment_rate,
                   [num |-> Unique("add_to_cart") - Unique("purchase"),
                    den |-> Unique("add_to_cart")])
        ELSE IsOne(cart_abandonment_rate)

\* A pass whose view holds two users who added and one who purchased.
C8_Witness ==
    /\ Done
    /\ Unique("add_to_cart") = 2
    /\ Unique("purchase") = 1

\* What a single pass on the dataset with the criteria of the state computes.
FreshPass ==
    /\ IsFilteredView
    /\ Len(funnel) = Cardinality({ e \in EventTypes : Count(e) > 0 })
    /\ \A k \in DOMAIN funnel : funnel[k].count = Count(funnel[k].event) /\ funnel[k].count > 0
    /\ unique_views = Unique("view")
    /\ unique_adds = Unique("add_to_cart")
    /\ unique_purchases = Unique("purchase")
    /\ IF Unique("view") > 0
       THEN RatEq(conv_view_to_add, [num |-> Unique("add_to_cart"), den |-> Unique("view")])
       ELSE IsZero(conv_view_to_add)
    /\ IF Unique("add_to_cart") > 0
       THEN RatEq(conv_add_to_purchase, [num |-> Unique("purchase"), den |-> Unique("add_to_cart")])
       ELSE IsZero(conv_add_to_purchase)
    /\ RatEq(cart_abandonment_rate,
             [num |-> conv_add_to_purchase.den - conv_add_to_purchase.num,
              den |-> conv_add_to_purchase.den])
    /\ IF Count("purchase") > 0
       THEN RatEq(avg_order_value,
                  [num |-> PriceSum(RowsOf("purchase")), den |-> Count("purchase")])
       ELSE IsZero(avg_order_value)
    /\ Len(monthly) = Cardinality(PurchaseMonths)
    /\ \A j \in DOMAIN monthly :
        /\ monthly[j].purchases = Cardinality(PurchasesIn(MonthOfEntry(monthly[j])))
        /\ monthly[j].revenue = PriceSum(PurchasesIn(MonthOfEntry(monthly[j])))

\* C9: after every pass the dataset is the generated one, and whatever the
\* criteria were before, a pass with two dates in the date input leaves the
\* view and the aggregates of a single pass on the dataset with the criteria
\* it ran with.
C9_RecomputedFromScratch ==
    /\ df = cache
    /\ (status # "loaded" /\ Len(date_range) = 2) => (Done /\ FreshPass)

\* A pass with criteria that are not the defaults, hence after a change,
\* whose view keeps some rows and drops others.
C9_Witness ==
    /\ Done
    /\ events # { df[i].event : i \in DOMAIN df }
    /\ date_range[1] = date_range[2]
    /\ view # << >>
    /\ Len(view) < Len(df)
    /\ monthly # << >>

\* C10: whatever the date input returns, the pass ends without an exception;
\* when it does not return two dates the error is shown and the filter is
\* not evaluated.
C10_DateInputTotal ==
    status # "loaded" =>
        /\ status = "done"
        /\ (Len(date_range) # 2 => error_shown)

====
